---- MODULE Spec2Model ----
(***************************************************************************)
(* Lexical front end of the Cannon compiler: the recursive group scanner   *)
(* (lex / do_group), the lexeme tree it builds and the highlighter that    *)
(* rebuilds the text from the tree (src/src/lex.rs, src/src/span.rs).      *)
(*                                                                         *)
(* A character is a one-character string.  A position is <<row, column>>   *)
(* (Pos(row, col)), a span is [start, end].  A lexeme is a record          *)
(*   [span, kind, ty, body, children]                                      *)
(* kind = "Token": ty is the TokenType, body the captured characters;      *)
(* kind = "Group": ty is the GroupType, children the nested lexemes.       *)
(* The recursion of do_group is the variable stack: one frame per active   *)
(* call, the last frame being the innermost call.                          *)
(***************************************************************************)
EXTENDS Naturals, Sequences, FiniteSets, TLC

VARIABLES source, file, idx, pos, stack, phase, err, lexed, styled, relexed

vars == <<source, file, idx, pos, stack, phase, err, lexed, styled, relexed>>

----------------------------------------------------------------------------
(* Bounds *)

\* longest input enumerated over the whole alphabet
MaxLen == 3

----------------------------------------------------------------------------
(* Characters *)

SP == " "
NL == "\n"
DQ == "\""
BS == "\\"
ESC == "ESC"
\* a two-byte character of the XID_Start class (U+00E9)
EAcute == "é"
\* a two-byte character of the numeric class that is no decimal digit and
\* no identifier character (U+00BD, the fraction one half)
Half == "½"
\* Option::None of file.next() / file.peek() / end_char
None == "None"

\* characters of the enumerated inputs
Alphabet ==
    {SP, NL, "a", EAcute, "1", "=", ":", "*", "-", ">", "/", DQ, BS,
     "(", ")", "[", "]", "{", "}"}

\* longer inputs, scanned besides the enumerated ones
Examples ==
    { <<"{", "(", "a", ")", "}">>,
      <<"/", "/", SP, "h", "i", NL, "f", "n">>,
      <<"(", "[", "a", "]", SP, NL, ")", SP>>,
      <<"1", "a", "b", "c", SP, "-", ">", SP, DQ, "a", SP, "(", DQ>>,
      <<"{", SP, "*", "=", SP, ":", ":", NL, "}">>,
      <<"(", "(", "(", ")", ")", ")">>,
      <<"(", DQ, "a", DQ, "/", "/", "a", NL, "-", ">", ")">>,
      <<Half, "a", SP, "1">> }

\* char::is_xid_start
XidStart == {"a", "b", "c", "f", "h", "i", "n", EAcute}

\* char::is_xid_continue
XidContinue == XidStart \cup {"1", "_"}

\* char::is_numeric
Numeric == {"1", Half}

\* every character that may occur in a scanned text
Chars == Alphabet \cup XidContinue \cup Numeric \cup {"#", ";"}

\* number of bytes of the UTF-8 encoding of c (what String::len counts)
Utf8Len(c) == IF c \in {EAcute, Half} THEN 2 ELSE 1

RECURSIVE StrLen(_)
\* String::len: the length of a string in bytes
StrLen(s) == IF s = <<>> THEN 0 ELSE Utf8Len(Head(s)) + StrLen(Tail(s))

----------------------------------------------------------------------------
(* Tokens, groups, lexemes, spans *)

\* a span that ends at its own start, as if spans were inclusive
SpanOfPosInclusive(p) == [start |-> p, end |-> p]

\* impl From<Pos> for Span
SpanOfPos(p) == [start |-> p, end |-> <<p[1], p[2] + 1>>]

SpanOfPair(s, e) == [start |-> s, end |-> e]

Token(ty, body) == [kind |-> "Token", ty |-> ty, body |-> body, children |-> <<>>]

Group(ty, body) == [kind |-> "Group", ty |-> ty, body |-> <<>>, children |-> body]

Lexeme(span, b) ==
    [span |-> span, kind |-> b.kind, ty |-> b.ty, body |-> b.body,
     children |-> b.children]

\* every group closed by a parenthesis
end_char_paren(ty) == ")"

end_char(ty) ==
    CASE ty = "Paren" -> ")"
      [] ty = "Bracket" -> "]"
      [] ty = "Brace" -> "}"

\* every opening delimiter taken for a parenthesis
from_start_char_paren(c) == IF c \in {"(", "[", "{"} THEN "Paren" ELSE None

from_start_char(c) ==
    CASE c = "(" -> "Paren"
      [] c = "[" -> "Bracket"
      [] c = "{" -> "Brace"
      [] OTHER -> None

is_keyword(t) ==
    t.ty = "Id" /\ t.body \in {<<"f", "n">>, <<"p", "u", "b">>, <<"t", "y", "p", "e">>}

NoErr == [kind |-> "None", ch |-> None, pos |-> <<0, 0>>]

Eof(p) == [kind |-> "Eof", ch |-> None, pos |-> p]

UnexpectedChar(c, p) == [kind |-> "UnexpectedChar", ch |-> c, pos |-> p]

\* the process aborted inside todo!()
Panicked(p) == [kind |-> "Panic", ch |-> None, pos |-> p]

\* no tree: lex has not returned Ok
NoTree ==
    <<[span |-> [start |-> <<0, 0>>, end |-> <<0, 0>>], kind |-> "NoTree",
       ty |-> None, body |-> <<>>, children |-> <<>>]>>

----------------------------------------------------------------------------
(* The character source: Peekable<impl Iterator<Item = char>> *)

\* the character file.next() returns (idx characters are consumed)
NextChar == IF idx < Len(file) THEN file[idx + 1] ELSE None

\* the character file.peek() returns after k characters more are consumed
PeekAt(k) == IF idx + k < Len(file) THEN file[idx + k + 1] ELSE None

RECURSIVE ScanWhile(_, _, _)
\* the number of characters a `while let Some(x) = file.peek()` loop
\* consumes from index j on: it stops at the first character outside set
ScanWhile(f, j, set) ==
    IF j > Len(f) \/ f[j] \notin set THEN 0
    ELSE 1 + ScanWhile(f, j + 1, set)

----------------------------------------------------------------------------
(* do_group, one loop iteration per action *)

Scanning == phase \in {"lex", "relex"}

Top == stack[Len(stack)]

Frame(term, ty, start) == [term |-> term, ty |-> ty, start |-> start, result |-> <<>>]

\* result.push(l) in the innermost call
Push(l) == [stack EXCEPT ![Len(stack)].result = Append(@, l)]

\* the columns of pos advanced by n
Adv(p, n) == <<p[1], p[2] + n>>

\* the variables a scanner step leaves alone
ScanFrame == UNCHANGED <<source, file, styled>>

\* the scan goes on
Continue == UNCHANGED <<phase, err, lexed, relexed>>

\* an error that is recorded while the scan goes on
FailKeepGoing(e) ==
    /\ err' = e
    /\ UNCHANGED <<stack, phase, lexed, relexed>>

\* Err(e)? : the error leaves every active call
Fail(e) ==
    /\ err' = e
    /\ stack' = <<>>
    /\ phase' = IF phase = "lex" THEN "failed" ELSE "relex_failed"
    /\ UNCHANGED <<lexed, relexed>>

\* n characters are consumed on the current row and a token is pushed
Emit(n, span, tok) ==
    /\ idx' = idx + n
    /\ pos' = Adv(pos, n)
    /\ stack' = Push(Lexeme(span, tok))
    /\ Continue

\* x == end_char with x = None: the top-level call returns Ok(result)
Finish ==
    /\ Scanning
    /\ NextChar = None
    /\ Top.term = None
    /\ stack' = <<>>
    /\ IF phase = "lex"
       THEN lexed' = Top.result /\ phase' = "lexed" /\ UNCHANGED relexed
       ELSE relexed' = Top.result /\ phase' = "relexed" /\ UNCHANGED lexed
    /\ UNCHANGED <<idx, pos, err>>
    /\ ScanFrame

\* the closing delimiter is consumed without advancing the cursor
ClosePosStay(p) == p

\* the cursor after the closing delimiter at p is consumed
ClosePos(p) == Adv(p, 1)

\* x == end_char with x = Some(c): the nested call returns and its caller
\* pushes the group
CloseGroup ==
    /\ Scanning
    /\ NextChar # None
    /\ NextChar = Top.term
    /\ idx' = idx + 1
    /\ pos' = ClosePos(pos)
    /\ LET inner == Top
           outer == SubSeq(stack, 1, Len(stack) - 1)
           g == Lexeme(SpanOfPair(inner.start, pos'), Group(inner.ty, inner.result))
       IN stack' = [outer EXCEPT ![Len(outer)].result = Append(@, g)]
    /\ Continue
    /\ ScanFrame

\* the end of input counted as one more column
EofPosNext(p) == Adv(p, 1)

\* the position Error::Eof carries when the cursor is at p
EofPos(p) == p

\* None => Err(Error::Eof(*pos))
EofInGroup ==
    /\ Scanning
    /\ NextChar = None
    /\ Top.term # None
    /\ Fail(Eof(EofPos(pos)))
    /\ UNCHANGED <<idx, pos>>
    /\ ScanFrame

\* the arms below are reached only when the terminator arm did not match
Dispatch(c) == Scanning /\ NextChar = c /\ NextChar # Top.term

Space ==
    /\ Dispatch(SP)
    /\ idx' = idx + 1
    /\ pos' = Adv(pos, 1)
    /\ UNCHANGED stack
    /\ Continue
    /\ ScanFrame

\* a newline that resets the column and keeps the row
NewlinePosNoRow(p) == <<p[1], 1>>

\* the cursor after a newline at p is consumed
NewlinePos(p) == <<p[1] + 1, 1>>

Newline ==
    /\ Dispatch(NL)
    /\ idx' = idx + 1
    /\ pos' = NewlinePos(pos)
    /\ UNCHANGED stack
    /\ Continue
    /\ ScanFrame

Ident ==
    /\ Scanning
    /\ NextChar # Top.term
    /\ NextChar \in XidStart \cup {"_"}
    /\ LET n == 1 + ScanWhile(file, idx + 2, XidContinue)
       IN Emit(n, SpanOfPair(pos, Adv(pos, n)),
               Token("Id", SubSeq(file, idx + 1, idx + n)))
    /\ ScanFrame

Number ==
    /\ Scanning
    /\ NextChar # Top.term
    /\ NextChar \notin XidStart \cup {"_"}
    /\ NextChar \in Numeric
    /\ LET n == 1 + ScanWhile(file, idx + 2, XidContinue)
       IN Emit(n, SpanOfPair(pos, Adv(pos, n)),
               Token("Num", SubSeq(file, idx + 1, idx + n)))
    /\ ScanFrame

SinglePunct ==
    /\ Scanning
    /\ NextChar # Top.term
    /\ NextChar \in {"#", ";", "="}
    /\ Emit(1, SpanOfPair(pos, Adv(pos, 1)), Token("Punct", <<NextChar>>))
    /\ ScanFrame

\* a punctuation arm without lookahead
PunctNoMunch(text, merge) ==
    Emit(1, SpanOfPair(pos, Adv(pos, 1)), Token("Punct", <<text>>))

\* a punctuation arm: the token starts with text and takes the lookahead
\* character too when that is one of merge
Punct(text, merge) ==
    IF PeekAt(1) \in merge
    THEN Emit(2, SpanOfPair(pos, Adv(pos, 2)), Token("Punct", <<text, PeekAt(1)>>))
    ELSE Emit(1, SpanOfPair(pos, Adv(pos, 1)), Token("Punct", <<text>>))

Colon ==
    /\ Dispatch(":")
    /\ Punct(":", {":"})
    /\ ScanFrame

\* the text the '*' arm starts its token with: String::from("-")
StarText == "-"

Star ==
    /\ Dispatch("*")
    /\ Punct(StarText, {"="})
    /\ ScanFrame

Dash ==
    /\ Dispatch("-")
    /\ Punct("-", {">", "-", "="})
    /\ ScanFrame

\* a comment loop without the check for the newline
CommentCharsAll == Chars

\* the characters the loop of a line comment consumes: all but '\n'
CommentChars == Chars \ {NL}

\* '/' '/': a line comment up to, not including, the newline
SlashComment ==
    /\ Dispatch("/")
    /\ PeekAt(1) = "/"
    /\ LET n == 2 + ScanWhile(file, idx + 3, CommentChars)
       IN Emit(n, SpanOfPair(pos, Adv(pos, n)),
               Token("Comment", SubSeq(file, idx + 1, idx + n)))
    /\ ScanFrame

\* '/' '*': todo!("Multiline?") aborts the process
SlashTodo ==
    /\ Dispatch("/")
    /\ PeekAt(1) = "*"
    /\ idx' = idx + 1
    /\ pos' = Adv(pos, 1)
    /\ err' = Panicked(pos')
    /\ stack' = <<>>
    /\ phase' = IF phase = "lex" THEN "panicked" ELSE "relex_failed"
    /\ UNCHANGED <<lexed, relexed>>
    /\ ScanFrame

\* '/' alone: Lexeme::new(start, ...) takes the span of a single position
SlashPunct ==
    /\ Dispatch("/")
    /\ PeekAt(1) \notin {"/", "*"}
    /\ Emit(1, SpanOfPos(pos), Token("Punct", <<"/">>))
    /\ ScanFrame

\* a string arm without the check for a raw newline
StringStopsNoNewline == {BS, DQ}

\* the characters that end the loop of the string arm
StringStops == {NL, BS, DQ}

\* a string arm that does not count the opening quote
StringPosNoQuote(p, k) == Adv(p, k)

\* the cursor when the loop of a string opened at p has read k body characters
StringPos(p, k) == Adv(p, 1 + k)

\* '"': a string literal; k characters are pushed to text before the loop
\* meets end of input, a newline, a backslash or the closing quote
Quote ==
    /\ Dispatch(DQ)
    /\ LET k == ScanWhile(file, idx + 2, Chars \ StringStops)
           stop == idx + 2 + k
           at == StringPos(pos, k)
       IN IF stop > Len(file)
          THEN /\ idx' = Len(file)
               /\ pos' = at
               /\ Fail(Eof(at))
          ELSE /\ idx' = stop
               /\ CASE file[stop] = NL ->
                         /\ pos' = at
                         /\ Fail(UnexpectedChar(NL, at))
                    [] file[stop] = BS ->
                         /\ pos' = at
                         /\ err' = Panicked(at)
                         /\ stack' = <<>>
                         /\ phase' = IF phase = "lex" THEN "panicked"
                                     ELSE "relex_failed"
                         /\ UNCHANGED <<lexed, relexed>>
                    [] file[stop] = DQ ->
                         /\ pos' = Adv(at, 1)
                         /\ stack' = Push(Lexeme(SpanOfPair(pos, Adv(at, 1)),
                                Token("String", SubSeq(file, idx + 2, stop - 1))))
                         /\ Continue
    /\ ScanFrame

\* an opening delimiter: do_group calls itself with the closer as end_char
OpenGroup ==
    /\ Scanning
    /\ NextChar # Top.term
    /\ from_start_char(NextChar) # None
    /\ idx' = idx + 1
    /\ pos' = Adv(pos, 1)
    /\ LET ty == from_start_char(NextChar)
       IN stack' = Append(stack, Frame(end_char(ty), ty, pos))
    /\ Continue
    /\ ScanFrame

\* the characters some earlier arm of the match takes
Recognised ==
    {SP, NL, "_", "#", ";", "=", ":", "*", "-", "/", DQ, "(", "[", "{"}
        \cup XidStart \cup Numeric

\* a last arm that skips the character instead of failing
UnexpectedSkips ==
    /\ Scanning
    /\ NextChar # None
    /\ NextChar # Top.term
    /\ NextChar \notin Recognised
    /\ idx' = idx + 1
    /\ pos' = Adv(pos, 1)
    /\ UNCHANGED stack
    /\ Continue
    /\ ScanFrame

\* Some(x) => Err(Error::UnexpectedChar(x, *pos))
Unexpected ==
    /\ Scanning
    /\ NextChar # None
    /\ NextChar # Top.term
    /\ NextChar \notin Recognised
    /\ idx' = idx + 1
    /\ UNCHANGED pos
    /\ Fail(UnexpectedChar(NextChar, pos))
    /\ ScanFrame

----------------------------------------------------------------------------
(* highlight *)

\* the colour escape "\x1B[<n>m", n given by its digits
Style(digits) == <<ESC, "[">> \o digits \o <<"m">>

\* the colour of a token
TokenStyle(t) ==
    CASE t.ty = "Comment" -> Style(<<"3", "4">>)
      [] t.ty = "Id" -> IF is_keyword(t) THEN Style(<<"3", "1">>)
                        ELSE Style(<<"3", "7">>)
      [] t.ty = "Num" -> Style(<<"3", "6">>)
      [] t.ty = "Punct" -> Style(<<"3", "3">>)
      [] t.ty = "String" -> Style(<<"3", "2">>)

\* the opening delimiter of a group type
start_char(ty) ==
    CASE ty = "Brace" -> "{"
      [] ty = "Bracket" -> "["
      [] ty = "Paren" -> "("

\* what a piece of the renderer yields: the cursor, the text, and whether
\* it reached panic!("invalid span")
Rendered(p, text, panic) == [pos |-> p, text |-> text, panic |-> panic]

RECURSIVE MoveTo(_, _)
\* the loop `while *pos != target`: newlines, then spaces, up to target
MoveTo(p, target) ==
    IF p = target THEN Rendered(p, <<>>, FALSE)
    ELSE IF p[1] < target[1]
         THEN LET r == MoveTo(<<p[1] + 1, 1>>, target)
              IN Rendered(r.pos, <<NL>> \o r.text, r.panic)
         ELSE IF p[2] < target[2]
              THEN LET r == MoveTo(<<p[1], p[2] + 1>>, target)
                   IN Rendered(r.pos, <<SP>> \o r.text, r.panic)
              ELSE Rendered(p, <<>>, TRUE)

\* the columns the renderer advances by for a token body
BodyWidth(body) == StrLen(body)

\* the text and the cursor advance of a token
RenderToken(p, t) ==
    IF t.ty = "String"
    THEN Rendered(Adv(p, BodyWidth(t.body) + 2),
                  TokenStyle(t) \o <<DQ>> \o t.body \o <<DQ>>, FALSE)
    ELSE Rendered(Adv(p, BodyWidth(t.body)), TokenStyle(t) \o t.body, FALSE)

RECURSIVE highlight_group(_, _)
highlight_group(p, group) ==
    IF group = <<>> THEN Rendered(p, <<>>, FALSE)
    ELSE
      LET lexeme == Head(group)
          gap == MoveTo(p, lexeme.span.start)
      IN IF gap.panic THEN gap
         ELSE
           LET one ==
                 IF lexeme.kind = "Token" THEN RenderToken(gap.pos, lexeme)
                 ELSE
                   LET inner == highlight_group(Adv(gap.pos, 1), lexeme.children)
                       end == <<lexeme.span.end[1], lexeme.span.end[2] - 1>>
                       close == MoveTo(inner.pos, end)
                       open == Style(<<"3", "5">>) \o <<start_char(lexeme.ty)>>
                   IN IF inner.panic
                      THEN Rendered(inner.pos, open \o inner.text, TRUE)
                      ELSE IF close.panic
                           THEN Rendered(close.pos, open \o inner.text, TRUE)
                           ELSE Rendered(Adv(close.pos, 1),
                                    open \o inner.text \o close.text
                                      \o Style(<<"3", "5">>)
                                      \o <<end_char(lexeme.ty)>>,
                                    FALSE)
           IN IF one.panic THEN Rendered(one.pos, gap.text \o one.text, TRUE)
              ELSE LET rest == highlight_group(one.pos, Tail(group))
                   IN Rendered(rest.pos, gap.text \o one.text \o rest.text,
                               rest.panic)

highlight(tree) ==
    LET r == highlight_group(<<1, 1>>, tree)
    IN Rendered(r.pos, r.text \o Style(<<"0">>), r.panic)

\* main's highlight: the tree of a successful lex is rendered
Highlight ==
    /\ phase = "lexed"
    /\ LET r == highlight(lexed)
       IN IF r.panic
          THEN styled' = <<>> /\ phase' = "highlight_panicked"
          ELSE styled' = r.text /\ phase' = "highlighted"
    /\ UNCHANGED <<source, file, idx, pos, stack, err, lexed, relexed>>

----------------------------------------------------------------------------
(* Re-tokenizing the highlighter's output *)

RECURSIVE DropStyle(_)
\* the rest of a text after the end of the colour escape it starts in
DropStyle(text) ==
    IF text = <<>> THEN <<>>
    ELSE IF Head(text) = "m" THEN Tail(text) ELSE DropStyle(Tail(text))

RECURSIVE StripStyle(_)
\* a text without its colour and reset escapes
StripStyle(text) ==
    IF text = <<>> THEN <<>>
    ELSE IF Head(text) = ESC THEN StripStyle(DropStyle(text))
         ELSE <<Head(text)>> \o StripStyle(Tail(text))

\* lex is called on the styled text, style codes stripped
Relex ==
    /\ phase = "highlighted"
    /\ file' = StripStyle(styled)
    /\ idx' = 0
    /\ pos' = <<1, 1>>
    /\ stack' = <<Frame(None, None, <<1, 1>>)>>
    /\ phase' = "relex"
    /\ UNCHANGED <<source, err, lexed, styled, relexed>>

----------------------------------------------------------------------------
(* main: the diagnostic for a lex error *)

\* file_text.lines().count(): one line per newline, and one more for the
\* text after the last newline when there is any
LineCount(text) ==
    Cardinality({k \in 1..Len(text) : text[k] = NL})
        + (IF text # <<>> /\ text[Len(text)] # NL THEN 1 ELSE 0)

\* main prints file_lines[pos.0 - 1] and the caret; indexing past the last
\* line panics
Report ==
    /\ phase = "failed"
    /\ phase' = IF err.pos[1] - 1 < LineCount(source) THEN "reported"
                ELSE "report_panicked"
    /\ UNCHANGED <<source, file, idx, pos, stack, err, lexed, styled, relexed>>

----------------------------------------------------------------------------
(* Specification *)

RECURSIVE Texts(_)
\* the texts of at most n characters of the alphabet
Texts(n) ==
    IF n = 0 THEN {<<>>}
    ELSE LET shorter == Texts(n - 1)
         IN shorter \cup {Append(t, c) : t \in shorter, c \in Alphabet}

Inputs == Texts(MaxLen) \cup Examples

\* lex(file): do_group(&mut file.peekable(), &mut Pos(1, 1), None)
Init ==
    /\ source \in Inputs
    /\ file = source
    /\ idx = 0
    /\ pos = <<1, 1>>
    /\ stack = <<Frame(None, None, <<1, 1>>)>>
    /\ phase = "lex"
    /\ err = NoErr
    /\ lexed = NoTree
    /\ styled = <<>>
    /\ relexed = NoTree

Next ==
    \/ Finish
    \/ CloseGroup
    \/ EofInGroup
    \/ Space
    \/ Newline
    \/ Ident
    \/ Number
    \/ SinglePunct
    \/ Colon
    \/ Star
    \/ Dash
    \/ SlashComment
    \/ SlashTodo
    \/ SlashPunct
    \/ Quote
    \/ OpenGroup
    \/ Unexpected
    \/ Highlight
    \/ Relex
    \/ Report

Spec == Init /\ [][Next]_vars

----------------------------------------------------------------------------
(* Measures the properties are stated with *)

RECURSIVE PosAfter(_, _)
\* the position of the character that follows the first k characters of f:
\* (1,1) advanced once per character, a newline giving (row + 1, 1) and any
\* other character (row, column + 1)
PosAfter(f, k) ==
    IF k = 0 THEN <<1, 1>>
    ELSE LET p == PosAfter(f, k - 1)
         IN IF f[k] = NL THEN <<p[1] + 1, 1>> ELSE <<p[1], p[2] + 1>>

\* the indices of f whose position is p (Len(f) + 1 is the end of input)
Offsets(f, p) == {k \in 1..(Len(f) + 1) : PosAfter(f, k - 1) = p}

\* the index of f at position p; 0 when f has no such position
Off(f, p) == IF Offsets(f, p) = {} THEN 0 ELSE CHOOSE k \in Offsets(f, p) : TRUE

\* p is before q in document order
PosLess(p, q) == p[1] < q[1] \/ (p[1] = q[1] /\ p[2] < q[2])

PosLeq(p, q) == p = q \/ PosLess(p, q)

RECURSIVE Descendants(_)
\* the lexemes of a tree, at every nesting level
Descendants(tree) ==
    UNION {{tree[i]} \cup Descendants(tree[i].children) : i \in 1..Len(tree)}

RECURSIVE Levels(_)
\* the sibling sequences of a tree: the tree and the children of each group
Levels(tree) ==
    {tree} \cup UNION {Levels(tree[i].children) : i \in 1..Len(tree)}

\* lex returned Ok(lexed) for source
Lexed == lexed # NoTree

\* the trees lex has returned
Trees == {t \in {lexed, relexed} : t # NoTree}

\* the tokens of the tree lex returned for source
LexedTokens == IF Lexed THEN {l \in Descendants(lexed) : l.kind = "Token"} ELSE {}

\* the groups of the tree lex returned for source
LexedGroups == IF Lexed THEN {l \in Descendants(lexed) : l.kind = "Group"} ELSE {}

RECURSIVE Visible(_)
\* a text without the blanks nothing follows on their line and without its
\* trailing newlines
Visible(text) ==
    IF text = <<>> THEN <<>>
    ELSE LET rest == Visible(Tail(text))
         IN IF Head(text) = SP /\ (rest = <<>> \/ Head(rest) = NL) THEN rest
            ELSE IF Head(text) = NL /\ rest = <<>> THEN <<>>
                 ELSE <<Head(text)>> \o rest

----------------------------------------------------------------------------
(* Properties *)

\* C1: for every input on which lex succeeds, highlight returns a text, and
\* lexing that text with the style codes stripped succeeds and yields a tree
\* equal to lex(input): same lexemes, kinds, bodies and spans at every level.
C1_RelexEqual ==
    /\ phase # "highlight_panicked"
    /\ phase # "relex_failed"
    /\ phase = "relexed" => relexed = lexed

\* C2: for every input on which lex succeeds, the highlighted text without
\* its style codes is the input: every token and delimiter with its original
\* characters at its original row and column, the gaps before them filled
\* with the same spaces and newlines (blanks at the end of a line or of the
\* input precede no lexeme and are left out of the comparison).
C2_TextPreserved ==
    /\ phase # "highlight_panicked"
    /\ phase = "highlighted" => Visible(StripStyle(styled)) = Visible(source)

\* the source characters consumed for token t
Consumed(t) ==
    LET a == Off(source, t.span.start)
        w == t.span.end[2] - t.span.start[2]
    IN IF t.ty = "String" THEN SubSeq(source, a + 1, a + w - 2)
       ELSE SubSeq(source, a, a + w - 1)

\* C3: the body of every token lex returns is exactly the source text
\* consumed for it (for a String token the text between the quotes), so the
\* tokens of '*' and '*=' carry bodies distinct from those of '-' and '-='.
C3_BodyIsSourceText ==
    \A t \in LexedTokens : Off(source, t.span.start) # 0 /\ t.body = Consumed(t)

\* the two-character punctuation
TwoCharPuncts ==
    {<<":", ":">>, <<"-", ">">>, <<"-", "-">>, <<"-", "=">>, <<"*", "=">>}

\* the lexemes of the innermost call after a step
TopResultAfter == stack'[Len(stack')].result

\* C4: maximal munch.  At a token boundary, '::', '->', '--', '-=' and '*='
\* give exactly one Punctuation token two columns wide that consumes both
\* characters; ':', '-' or '*' before anything else gives a token one column
\* wide and leaves the next character unconsumed.
C4_MaximalMunch ==
    [][(Scanning /\ NextChar \in {":", "-", "*"}) =>
         LET n == IF <<NextChar, PeekAt(1)>> \in TwoCharPuncts THEN 2 ELSE 1
             l == TopResultAfter[Len(TopResultAfter)]
         IN /\ idx' = idx + n
            /\ Len(stack') = Len(stack)
            /\ TopResultAfter = Append(Top.result, l)
            /\ l.kind = "Token"
            /\ l.ty = "Punct"
            /\ Len(l.body) = n
            /\ l.span = [start |-> pos, end |-> <<pos[1], pos[2] + n>>]
            /\ pos' = l.span.end]_vars

\* C4 witness: lex returned a tree with a merged '*=' and a lone ':' or '-'
C4_Witness ==
    /\ \E t \in LexedTokens :
          /\ t.ty = "Punct"
          /\ t.span.end[2] = t.span.start[2] + 2
          /\ source[Off(source, t.span.start)] = "*"
    /\ \E t \in LexedTokens :
          /\ t.ty = "Punct"
          /\ t.span.end[2] = t.span.start[2] + 1
          /\ source[Off(source, t.span.start)] \in {":", "-"}

\* a step pushes a token in the innermost call
TokenPushed ==
    /\ Scanning
    /\ Len(stack') = Len(stack)
    /\ Len(stack') > 0
    /\ Len(TopResultAfter) = Len(Top.result) + 1

\* C5: the span of every token ends at its start advanced by the number of
\* characters consumed for it, on the same row, the end exclusive: when the
\* token is pushed, and in the returned tree, where the count is the length
\* of the body plus the two quotes of a String.
C5_SpanWidth ==
    /\ [](\A t \in LexedTokens :
             t.span.end = <<t.span.start[1],
                            t.span.start[2] + Len(t.body)
                              + (IF t.ty = "String" THEN 2 ELSE 0)>>)
    /\ [][TokenPushed =>
            LET l == TopResultAfter[Len(TopResultAfter)]
            IN /\ l.span.start = pos
               /\ l.span.end = <<pos[1], pos[2] + (idx' - idx)>>]_vars

\* C5 witness: lex returned a tree with a '/' token and a String token
C5_Witness ==
    /\ \E t \in LexedTokens : t.ty = "String"
    /\ \E t \in LexedTokens : t.ty = "Punct" /\ t.body = <<"/">>

\* C6: at every level of every tree lex returns, every span starts strictly
\* before it ends and consecutive siblings are in document order without
\* overlap: the earlier one ends at or before the start of the later one.
C6_SiblingsOrdered ==
    \A tree \in Trees : \A level \in Levels(tree) : \A i \in 1..Len(level) :
        /\ PosLess(level[i].span.start, level[i].span.end)
        /\ i < Len(level) => PosLeq(level[i].span.end, level[i + 1].span.start)

\* C6 witness: lex returned a tree with two siblings on different rows
C6_Witness ==
    /\ Lexed
    /\ \E level \in Levels(lexed) :
          /\ Len(level) >= 2
          /\ level[1].span.end[1] < level[2].span.start[1]

\* the position of the closing delimiter of group g
CloserPos(g) == <<g.span.end[1], g.span.end[2] - 1>>

\* C7: in every tree lex returns, the span of a group contains the span of
\* every descendant, and every child lies strictly inside: it starts after
\* the opening delimiter and ends at or before the closing delimiter, which
\* is one column before the end of the group.
C7_GroupContains ==
    \A tree \in Trees : \A g \in Descendants(tree) :
        g.kind = "Group" =>
            /\ g.span.end[2] >= 2
            /\ \A i \in 1..Len(g.children) :
                  /\ PosLeq(Adv(g.span.start, 1), g.children[i].span.start)
                  /\ PosLeq(g.children[i].span.end, CloserPos(g))
            /\ \A d \in Descendants(g.children) :
                  /\ PosLess(g.span.start, d.span.start)
                  /\ PosLess(d.span.end, g.span.end)

\* C7 witness: lex returned a group that holds a group that holds a lexeme
C7_Witness ==
    \E g \in LexedGroups : \E i \in 1..Len(g.children) :
        g.children[i].kind = "Group" /\ g.children[i].children # <<>>

\* the delimiters of a group kind, opening and closing
Delimiters(ty) ==
    CASE ty = "Paren" -> <<"(", ")">>
      [] ty = "Bracket" -> <<"[", "]">>
      [] ty = "Brace" -> <<"{", "}">>

\* index i of source lies in a String or Comment token
InText(i) ==
    \E t \in LexedTokens :
        /\ t.ty \in {"String", "Comment"}
        /\ Off(source, t.span.start) <= i
        /\ i < Off(source, t.span.start) + (t.span.end[2] - t.span.start[2])

\* the tree of "{(a)}"
NestedTree ==
    <<Lexeme(SpanOfPair(<<1, 1>>, <<1, 6>>), Group("Brace",
        <<Lexeme(SpanOfPair(<<1, 2>>, <<1, 5>>), Group("Paren",
            <<Lexeme(SpanOfPair(<<1, 3>>, <<1, 4>>), Token("Id", <<"a">>))>>))>>))>>

\* C8: when lex succeeds, each opening delimiter '(', '[' or '{' (outside
\* strings and comments) gives exactly one group, of kind Paren, Bracket or
\* Brace; the span of a group starts at its opening delimiter and ends one
\* column past its closing delimiter, the closer of its kind; its children
\* are exactly the lexemes between the two; "{(a)}" gives one Brace group
\* (1,1)-(1,6) holding one Paren group holding the Identifier "a".
C8_Groups ==
    Lexed =>
      /\ \A g \in LexedGroups :
           LET a == Off(source, g.span.start)
               z == Off(source, CloserPos(g))
           IN /\ a # 0 /\ z # 0 /\ a < z
              /\ source[a] = Delimiters(g.ty)[1]
              /\ source[z] = Delimiters(g.ty)[2]
              /\ \A d \in Descendants(lexed) :
                    (PosLess(g.span.start, d.span.start)
                       /\ PosLess(d.span.end, g.span.end))
                    <=> d \in Descendants(g.children)
      /\ \A i \in 1..Len(source) :
           (source[i] \in {"(", "[", "{"} /\ ~InText(i)) =>
               Cardinality({g \in LexedGroups : Off(source, g.span.start) = i}) = 1
      /\ source = <<"{", "(", "a", ")", "}">> => lexed = NestedTree

\* C8 witness: lex returned the tree of "{(a)}"
C8_Witness ==
    /\ phase = "lexed"
    /\ source = <<"{", "(", "a", ")", "}">>
    /\ Cardinality(LexedGroups) = 2

\* C9: when the input ends while a group is open, lex fails with Error::Eof
\* at the position just after the last consumed character and returns no
\* tree; every Error::Eof carries that position.
C9_EofInOpenGroup ==
    [][/\ (Scanning /\ Len(stack) > 1 /\ NextChar = None) =>
            /\ err' = Eof(PosAfter(file, Len(file)))
            /\ phase' = IF phase = "lex" THEN "failed" ELSE "relex_failed"
            /\ stack' = <<>>
            /\ phase = "lex" => lexed' = NoTree
            /\ phase = "relex" => relexed' = NoTree
       /\ (Scanning /\ err'.kind = "Eof") =>
            /\ idx' = Len(file)
            /\ err'.pos = PosAfter(file, Len(file))]_vars

\* C9 witness: lex failed at end of input on the second row, a group open
C9_Witness ==
    /\ phase = "failed"
    /\ source = <<"(", NL, "a">>
    /\ err = Eof(<<2, 2>>)
    /\ lexed = NoTree

\* the indices after the opening quote at idx + 1 that end the string loop
StopsAfterQuote == {j \in (idx + 2)..Len(file) : file[j] \in {NL, BS, DQ}}

\* C10: after an opening '"' and before its closing '"', end of input makes
\* lex fail with Error::Eof and a raw newline makes it fail with
\* UnexpectedChar('\n', p), p the row and column of that newline; no String
\* token is pushed and no tree returned.
C10_StringErrors ==
    [][(Scanning /\ NextChar = DQ) =>
         IF StopsAfterQuote = {}
         THEN /\ err'.kind = "Eof"
              /\ stack' = <<>>
              /\ ~Scanning'
              /\ UNCHANGED <<lexed, relexed>>
         ELSE LET s == CHOOSE j \in StopsAfterQuote :
                          \A k \in StopsAfterQuote : j <= k
              IN file[s] = NL =>
                   /\ err' = UnexpectedChar(NL, PosAfter(file, s - 1))
                   /\ stack' = <<>>
                   /\ ~Scanning'
                   /\ UNCHANGED <<lexed, relexed>>]_vars

\* C10 witness: lex failed on the newline inside a string on the second row
C10_Witness ==
    /\ phase = "failed"
    /\ source = <<NL, DQ, NL>>
    /\ err = UnexpectedChar(NL, <<2, 2>>)
    /\ lexed = NoTree

\* C11: lex returns a value for every input and never aborts the process:
\* on '/' followed by '*' and on a backslash inside a string literal it
\* returns an explicit unsupported-construct error with the position.
C11_NoAbort ==
    /\ phase # "panicked"
    /\ err.kind # "Panic"

\* the indices from j on where a line comment stops: the newlines
NewlinesFrom(j) == {k \in j..Len(file) : file[k] = NL}

\* the index of the last character of the comment that starts at idx + 1
CommentLast ==
    IF NewlinesFrom(idx + 1) = {} THEN Len(file)
    ELSE (CHOOSE k \in NewlinesFrom(idx + 1) :
             \A m \in NewlinesFrom(idx + 1) : k <= m) - 1

\* the tree of "// hi\nfn"
CommentTree ==
    <<Lexeme(SpanOfPair(<<1, 1>>, <<1, 6>>),
             Token("Comment", <<"/", "/", SP, "h", "i">>)),
      Lexeme(SpanOfPair(<<2, 1>>, <<2, 3>>), Token("Id", <<"f", "n">>))>>

\* C12: '//' at a token boundary gives one Comment token whose body is '//'
\* and every character up to, not including, the next newline or the end of
\* input; the newline is left unconsumed, so what follows starts on the next
\* row at column 1: "// hi\nfn" is Comment "// hi", then Identifier "fn" at
\* (2,1).
C12_LineComment ==
    /\ [](source = <<"/", "/", SP, "h", "i", NL, "f", "n">> /\ Lexed
            => lexed = CommentTree)
    /\ [][(Scanning /\ NextChar = "/" /\ PeekAt(1) = "/") =>
            LET l == TopResultAfter[Len(TopResultAfter)]
            IN /\ Len(stack') = Len(stack)
               /\ TopResultAfter = Append(Top.result, l)
               /\ l.kind = "Token"
               /\ l.ty = "Comment"
               /\ l.body = SubSeq(file, idx + 1, CommentLast)
               /\ l.span = [start |-> pos,
                            end |-> <<pos[1], pos[2] + (CommentLast - idx)>>]
               /\ idx' = CommentLast
               /\ pos' = l.span.end]_vars

\* C12 witness: lex returned the tree of "// hi\nfn"
C12_Witness ==
    /\ phase = "lexed"
    /\ source = <<"/", "/", SP, "h", "i", NL, "f", "n">>
    /\ Len(lexed) = 2
    /\ lexed[2].span.start = <<2, 1>>

\* the tokens of the returned tree that hold index i of source
TokensAt(i) ==
    {t \in LexedTokens :
        /\ Off(source, t.span.start) # 0
        /\ Off(source, t.span.start) <= i
        /\ i < Off(source, t.span.start) + (t.span.end[2] - t.span.start[2])}

\* the groups of the returned tree with a delimiter at index i of source
GroupsAt(i) ==
    {g \in LexedGroups :
        Off(source, g.span.start) = i \/ Off(source, CloserPos(g)) = i}

\* C13: lex returns Ok only at the top level (terminator none) and at the
\* end of input, the whole input consumed and no group open; then every
\* input character that is not a space or a newline is part of exactly one
\* token or is a delimiter of exactly one group.
C13_WholeInput ==
    /\ [](Lexed => \A i \in 1..Len(source) :
            source[i] \notin {SP, NL} =>
                Cardinality(TokensAt(i)) + Cardinality(GroupsAt(i)) = 1)
    /\ [][(Scanning /\ phase' \in {"lexed", "relexed"}) =>
            /\ idx = Len(file)
            /\ idx' = idx
            /\ Len(stack) = 1
            /\ Top.term = None]_vars

\* C13 witness: lex returned the tree of an input with nested groups, a
\* token, blanks and a newline
C13_Witness ==
    /\ phase = "lexed"
    /\ source = <<"(", "[", "a", "]", SP, NL, ")", SP>>
    /\ idx = Len(source)
    /\ Cardinality(LexedGroups) = 2

\* e is an error value lex returns
IsError(e) == e.kind \in {"Eof", "UnexpectedChar"}

\* C14: the first error raised, at any nesting depth, ends the whole lex
\* call: every active call is left, no tree is returned, the failing
\* character is the last one consumed, and the error value (kind, character,
\* position) is never changed afterwards.
C14_FirstErrorEnds ==
    [][/\ (Scanning /\ IsError(err')) =>
            /\ ~Scanning'
            /\ stack' = <<>>
            /\ UNCHANGED <<lexed, relexed>>
            /\ phase = "lex" => (phase' = "failed" /\ lexed' = NoTree)
            /\ err'.kind = "Eof" => idx' = Len(file)
            /\ err'.kind = "UnexpectedChar" =>
                 /\ idx' \in 1..Len(file)
                 /\ file[idx'] = err'.ch
                 /\ err'.pos = PosAfter(file, idx' - 1)
       /\ IsError(err) =>
            /\ ~Scanning'
            /\ UNCHANGED <<err, idx, pos, stack, lexed, relexed>>]_vars

\* C14 witness: lex failed inside a group on '>' and left the 'a' after it
\* unconsumed
C14_Witness ==
    /\ phase = "failed"
    /\ source = <<"(", ">", "a">>
    /\ err = UnexpectedChar(">", <<1, 2>>)
    /\ idx = 2
    /\ lexed = NoTree

\* the number of groups open: the nested calls of do_group
Depth == Len(stack) - 1

\* the values the maximum nesting depth can be configured to
DepthLimits == 1..MaxLen

\* C15: group scanning is bounded in depth: whatever the configured maximum,
\* lex does not recurse deeper but fails with a nesting-depth error.
C15_DepthBounded ==
    Scanning => \A limit \in DepthLimits : Depth <= limit \/ err.kind = "NestingDepth"

\* C16: no drift of the cursor.  Before every iteration of do_group, at
\* every nesting depth, the cursor is the position reached from (1,1) by
\* advancing once per character consumed so far, a newline giving
\* (row + 1, 1) and any other character (row, column + 1).
C16_NoDrift == Scanning => pos = PosAfter(file, idx)

\* C16 witness: the scan is at the end of an input with a group, a string,
\* a comment, a newline and a two-character token
C16_Witness ==
    /\ phase = "lex"
    /\ source = <<"(", DQ, "a", DQ, "/", "/", "a", NL, "-", ">", ")">>
    /\ idx = Len(source)
    /\ pos = <<2, 4>>
    /\ Len(Top.result) = 1

\* the decimal digits
Digits == {"1"}

\* the character of source that follows token t; None at the end of input
Following(t) ==
    LET z == Off(source, t.span.start) + (t.span.end[2] - t.span.start[2])
    IN IF z <= Len(source) THEN source[z] ELSE None

\* C17: identifiers and numbers are captured maximally.  An Identifier
\* starts at an identifier-start character or '_', a Number starts at a
\* decimal digit, both go on over identifier-continue characters ("1abc" is
\* one Number), and the character after the token is never
\* identifier-continue.
C17_MaximalWords ==
    /\ \A t \in LexedTokens :
         t.ty \in {"Id", "Num"} =>
            /\ t.ty = "Id" => t.body[1] \in XidStart \cup {"_"}
            /\ t.ty = "Num" => t.body[1] \in Digits
            /\ \A k \in 2..Len(t.body) : t.body[k] \in XidContinue
            /\ Following(t) \notin XidContinue
    /\ (Lexed /\ Len(source) >= 4
           /\ SubSeq(source, 1, 4) = <<"1", "a", "b", "c">>) =>
         (lexed[1].ty = "Num" /\ Len(lexed[1].body) >= 4)

\* the columns highlight_group advances its cursor by for token t
RenderedWidth(t) == BodyWidth(t.body) + (IF t.ty = "String" THEN 2 ELSE 0)

\* C18: for every tree of a successful lex, highlight never reaches the
\* "invalid span" panic, and after rendering a token its cursor is at the
\* end of the span of that token: it advances by the length of the body as
\* the scanner advanced by consumed characters, non-ASCII ones included.
C18_NoInvalidSpan ==
    /\ phase # "highlight_panicked"
    /\ phase = "highlighted" =>
         \A t \in LexedTokens :
             t.span.start[2] + RenderedWidth(t) = t.span.end[2]

\* the closer of the innermost open group; None at the top level
OwnCloser == IF Depth >= 1 THEN Delimiters(Top.ty)[2] ELSE None

\* C19: a closing delimiter that is not the closer of the innermost open
\* group (any closer at the top level) is never taken as a terminator: lex
\* fails with UnexpectedChar(that character, its row and column); a group is
\* only ever closed by the closer of its own kind.
C19_MismatchedCloser ==
    [][/\ (Scanning /\ NextChar \in {")", "]", "}"} /\ NextChar # OwnCloser) =>
            /\ err' = UnexpectedChar(NextChar, PosAfter(file, idx))
            /\ ~Scanning'
            /\ stack' = <<>>
            /\ UNCHANGED <<lexed, relexed>>
       /\ (Scanning /\ Scanning' /\ Len(stack') < Len(stack)) =>
            NextChar = OwnCloser]_vars

\* C19 witness: lex failed on ']' on the second row while a '(' was open
C19_Witness ==
    /\ phase = "failed"
    /\ source = <<"(", NL, "]">>
    /\ err = UnexpectedChar("]", <<2, 1>>)
    /\ lexed = NoTree

\* C20: the position of every lex error designates an existing line of
\* the input: its row is at most the number of lines of the file text, so
\* main prints that line and the caret without indexing past the last
\* line, also when the error is the end of input after a trailing newline.
C20_RowInFile ==
    /\ phase # "report_panicked"
    /\ phase = "failed" => (err.pos[1] >= 1 /\ err.pos[1] <= LineCount(source))

====
